---- MODULE Spec2Model ----
(***************************************************************************)
(* A model of datatables-query (src/index.js): the three query compilers   *)
(* buildFindParameters, buildSortParameters, buildSelectParameters, and    *)
(* the orchestrator run, which issues two counts and one fetch against a   *)
(* document store.                                                         *)
(*                                                                         *)
(* JavaScript values are modelled as follows.                              *)
(*  - a string that is text (search text, a document's field value) is a   *)
(*    sequence of one-character strings;                                   *)
(*  - an object (a filter, a sort or select expression, a document) is a   *)
(*    function from its keys to its values; every value of a filter is a   *)
(*    record with a tag t: "eq" (a literal to compare with), "re" (a       *)
(*    RegExp), "list" (an array of filters, under $or and $and), "num";    *)
(*  - a number is a record [nan, n, frac]: NaN, or floor n and whether a   *)
(*    fractional part is present;                                          *)
(*  - undefined is the string "undefined" where a string is expected, a    *)
(*    kind/defined flag elsewhere.                                         *)
(***************************************************************************)
EXTENDS Integers, Sequences, FiniteSets, TLC

VARIABLES
    params,          \* the descriptor object the caller holds (find is shared, line 72)
    orig,            \* the descriptor as the caller built it
    ret,             \* what the last direct call of a compiler returned
    calls,           \* number of calls made on the descriptor so far
    store,           \* the collection: a sequence of documents
    pc,              \* where the request is: idle, count1, count2, fetch, done
    outcome,         \* none, threw, rejected (Error), rejectedStore ({error}), fulfilled
    message,         \* which Error was thrown or given to reject
    findParameters,  \* run's local, line 193
    sortParameters,  \* run's local, line 194
    selectParameters,\* run's local, line 195
    recordsTotal,    \* run's local, line 196
    recordsFiltered, \* run's local, line 197
    envelope,        \* what fulfill was called with
    ops,             \* the store operations issued by this request, in order
    settled,         \* how many times fulfill or reject was called in this request
    writes,          \* number of writes other clients made to the store
    writeAt          \* the request's positions at which such a write happened

vars == << params, orig, ret, calls, store, pc, outcome, message, findParameters,
           sortParameters, selectParameters, recordsTotal, recordsFiltered,
           envelope, ops, settled, writes, writeAt >>

runVars == << store, pc, outcome, message, findParameters, sortParameters,
              selectParameters, recordsTotal, recordsFiltered, envelope, ops,
              settled, writes, writeAt >>

----------------------------------------------------------------------------
(* Bounds *)

MaxCols == 2      \* columns of a descriptor
MaxCalls == 2     \* calls made on one descriptor object
MaxWrites == 1    \* concurrent writes to the store during the model's run
MaxDocs == 2      \* documents in the collection at the start

----------------------------------------------------------------------------
(* Objects *)

Undefined == "undefined"

EmptyObj == [k \in {} |-> [t |-> "eq", v |-> <<>>]]

Put(o, k, v) == [x \in (DOMAIN o) \cup {k} |-> IF x = k THEN v ELSE o[x]]

Del(o, k) == [x \in (DOMAIN o) \ {k} |-> o[x]]

Has(o, k) == k \in DOMAIN o

Eq(v) == [t |-> "eq", v |-> v]

List(items) == [t |-> "list", items |-> items]

Num(n) == [t |-> "num", n |-> n]

One(k, v) == Put(EmptyObj, k, v)

----------------------------------------------------------------------------
(* Numbers *)

NaN == [nan |-> TRUE, n |-> 0, frac |-> FALSE]

Int_(n) == [nan |-> FALSE, n |-> n, frac |-> FALSE]

\* Number(x), line 137 and lines 190-192, on the tokens the model sends.
Number(x) ==
    CASE x = "0" -> Int_(0)
      [] x = "1" -> Int_(1)
      [] x = "2" -> Int_(2)
      [] x = "3" -> Int_(3)
      [] x = "-1" -> Int_(-1)
      [] x = "0.5" -> [nan |-> FALSE, n |-> 0, frac |-> TRUE]
      [] x = "" -> Int_(0)
      [] OTHER -> NaN

\* isNaN(arg) || arg === undefined || arg === null, over the given numbers.
isNaNorUndefined(args) == \E i \in 1..Len(args) : args[i].nan

----------------------------------------------------------------------------
(* Text *)

Meta == {"/", ".", "*", "+", "?", "|", "(", ")", "[", "]", "{", "}", "\\", "$", "^", "-"}

RECURSIVE escapeRegex(_)
escapeRegex(val) ==
    IF val = <<>> THEN <<>>
    ELSE (IF Head(val) \in Meta THEN <<"\\", Head(val)>> ELSE <<Head(val)>>)
         \o escapeRegex(Tail(val))

----------------------------------------------------------------------------
(* What a compiler hands back: null, an object, or an exception. *)

Null == [kind |-> "null", val |-> EmptyObj, err |-> ""]

Value(o) == [kind |-> "value", val |-> o, err |-> ""]

Throw(e) == [kind |-> "throw", val |-> EmptyObj, err |-> e]

NoCall == [kind |-> "none", val |-> EmptyObj, err |-> ""]

\* The result r of a direct call of the compiler fn.
Called(fn, r) == [fn |-> fn, kind |-> r.kind, val |-> r.val, err |-> r.err]

----------------------------------------------------------------------------
(* getSearchableFields, lines 18-24 *)

\* JSON.parse(column.searchable): a boolean or its string encoding parses to
\* the boolean; anything else (undefined included) is a SyntaxError.
JSONParses(x) == x \in {"true", "false"}

JSONParse(x) == x = "true"

RECURSIVE SelectData(_)
SelectData(cols) ==
    IF cols = <<>> THEN <<>>
    ELSE (IF JSONParse(Head(cols).searchable) THEN <<Head(cols).data>> ELSE <<>>)
         \o SelectData(Tail(cols))

getSearchableFields(p) ==
    IF p.columns.kind # "array" THEN Throw("TypeError")
    ELSE IF \E i \in 1..Len(p.columns.items) : ~JSONParses(p.columns.items[i].searchable)
         THEN Throw("SyntaxError")
    ELSE Value(One("fields", List(SelectData(p.columns.items))))

----------------------------------------------------------------------------
(* buildFindParameters, lines 66-116 *)

\* lines 80-92. The model's search texts hold no space and no double quote,
\* so the smart pattern has the one word that is the whole escaped text.
SearchRegex(p, searchText) ==
    [t |-> "re", lookahead |-> p.search.smart, words |-> <<searchText>>, flags |-> "i"]

\* lines 101-105
RECURSIVE OrConditions(_, _)
OrConditions(fields, re) ==
    IF fields = <<>> THEN <<>>
    ELSE <<One(Head(fields), re)>> \o OrConditions(Tail(fields), re)

\* lines 96-98
AttachSingle(findObj, field, re) == Put(findObj, field, re)

\* MergeOr as it would be without the branch of lines 107-110.
MergeOrOverwriting(findObj, searchOrArray) == Put(findObj, "$or", List(searchOrArray))

\* lines 107-113
MergeOr(findObj, searchOrArray) ==
    IF Has(findObj, "$or")
    THEN Put(Del(findObj, "$or"), "$and",
             List(<< One("$or", List(searchOrArray)), One("$or", findObj["$or"]) >>))
    ELSE Put(findObj, "$or", List(searchOrArray))

\* What the call returns (ret) and the descriptor's find object afterwards
\* (find): findParameters is params.find itself when params.find is set
\* (line 72), so the assignments of lines 97, 109, 110 and 112 change it.
buildFindParameters(p) ==
    IF p.columns.kind = "undefined" \/ p.search.kind = "undefined" \/ ~p.search.hasValue
    THEN [ret |-> Null, find |-> p.find]
    ELSE LET searchText == escapeRegex(p.search.value)
             base == IF p.find.defined THEN p.find.obj ELSE EmptyObj
         IN  IF searchText = <<>> THEN [ret |-> Value(base), find |-> p.find]
             ELSE LET re == SearchRegex(p, searchText)
                      sf == getSearchableFields(p)
                  IN  IF sf.kind = "throw" THEN [ret |-> sf, find |-> p.find]
                      ELSE LET fields == sf.val["fields"].items
                               result == IF Len(fields) = 1
                                         THEN AttachSingle(base, fields[1], re)
                                         ELSE MergeOr(base, OrConditions(fields, re))
                           IN  [ret |-> Value(result),
                                find |-> IF p.find.defined
                                         THEN [defined |-> TRUE, obj |-> result]
                                         ELSE p.find]

----------------------------------------------------------------------------
(* buildSortParameters, lines 132-155 *)

\* columns[sortColumn] is an element only for an integer within 0..length-1;
\* for any other number it is undefined.
IsIndex(num, cols) == ~num.frac /\ num.n >= 0 /\ num.n < Len(cols)

SortDirection(sortOrder) == IF sortOrder = "asc" THEN 1 ELSE -1

buildSortParameters(p) ==
    IF p.order.kind # "array" \/ Len(p.order.items) = 0 THEN Null
    ELSE LET sortColumn == Number(p.order.items[1].column)
             sortOrder == p.order.items[1].dir
         IN  IF isNaNorUndefined(<<sortColumn>>) \/ p.columns.kind # "array"
                \/ sortColumn.n >= Len(p.columns.items)
             THEN Null
             \* line 143 reads .orderable of undefined
             ELSE IF ~IsIndex(sortColumn, p.columns.items) THEN Throw("TypeError")
             ELSE LET col == p.columns.items[sortColumn.n + 1]
                  IN  IF col.orderable = "false" THEN Null
                      ELSE IF col.data = Undefined THEN Null
                      ELSE Value(One(col.data, Num(SortDirection(sortOrder))))

----------------------------------------------------------------------------
(* buildSelectParameters, lines 163-172 *)

RECURSIVE SelectReduce(_, _)
SelectReduce(selectParams, cols) ==
    IF cols = <<>> THEN selectParams
    ELSE SelectReduce(Put(selectParams, Head(cols).data, Num(1)), Tail(cols))

buildSelectParameters(p) ==
    IF p.columns.kind # "array" THEN Null
    ELSE Value(SelectReduce(EmptyObj, p.columns.items))

----------------------------------------------------------------------------
(* The document store behind Model: countDocuments and find, as the calls of
   lines 217, 221 and 226-236 use them. *)

Lower(c) == IF c = "J" THEN "j" ELSE c

\* The atoms of a pattern's source: an escaped character stands for itself,
\* an unescaped "." for any character.
RECURSIVE Atoms(_)
Atoms(src) ==
    IF src = <<>> THEN <<>>
    ELSE IF Head(src) = "\\" /\ Len(src) >= 2
         THEN <<[any |-> FALSE, c |-> src[2]]>> \o Atoms(Tail(Tail(src)))
    ELSE <<[any |-> Head(src) = ".", c |-> Head(src)]>> \o Atoms(Tail(src))

\* The pattern occurs somewhere in the text, case-insensitively (flag i).
Occurs(src, text) ==
    LET a == Atoms(src)
    IN  \E i \in 0..(Len(text) - Len(a)) :
            \A j \in 1..Len(a) : a[j].any \/ Lower(a[j].c) = Lower(text[i + j])

\* new RegExp(...).test(text): line 91 is the source itself, line 89 one
\* lookahead per word.
RegexTest(re, text) == \A i \in 1..Len(re.words) : Occurs(re.words[i], text)

\* A document matches a filter.  An empty $or or $and list is dropped from
\* the filter by the driver's cast (when it does not refuse it: every
\* operation may fail, see StoreFails).
RECURSIVE Matches(_, _)
Matches(doc, filter) ==
    \A k \in DOMAIN filter :
        CASE k = "$or" ->
                 filter[k].items = <<>>
                 \/ \E i \in 1..Len(filter[k].items) : Matches(doc, filter[k].items[i])
          [] k = "$and" ->
                 \A i \in 1..Len(filter[k].items) : Matches(doc, filter[k].items[i])
          [] OTHER ->
                 /\ Has(doc, k)
                 /\ IF filter[k].t = "re" THEN RegexTest(filter[k], doc[k])
                    ELSE doc[k] = filter[k].v

RECURSIVE SelectSeq_(_, _)
SelectSeq_(docs, filter) ==
    IF docs = <<>> THEN <<>>
    ELSE (IF Matches(Head(docs), filter) THEN <<Head(docs)>> ELSE <<>>)
         \o SelectSeq_(Tail(docs), filter)

countDocuments(docs, filter) == Len(SelectSeq_(docs, filter))

Alphabet == <<".", "J", "a", "b", "j", "l", "o">>

Rank(c) == CHOOSE i \in 1..Len(Alphabet) : Alphabet[i] = c

RECURSIVE TextLess(_, _)
TextLess(a, b) ==
    IF b = <<>> THEN FALSE
    ELSE IF a = <<>> THEN TRUE
    ELSE IF Head(a) = Head(b) THEN TextLess(Tail(a), Tail(b))
    ELSE Rank(Head(a)) < Rank(Head(b))

\* d goes before e under the ordering expression {field: dir}.
Before(d, e, field, dir) ==
    IF dir = 1 THEN TextLess(d[field], e[field]) ELSE TextLess(e[field], d[field])

RECURSIVE InsertSorted(_, _, _, _)
InsertSorted(d, sorted, field, dir) ==
    IF sorted = <<>> THEN <<d>>
    ELSE IF Before(d, Head(sorted), field, dir) THEN <<d>> \o sorted
    ELSE <<Head(sorted)>> \o InsertSorted(d, Tail(sorted), field, dir)

RECURSIVE SortDocs(_, _, _)
SortDocs(docs, field, dir) ==
    IF docs = <<>> THEN <<>>
    ELSE InsertSorted(docs[Len(docs)], SortDocs(SubSeq(docs, 1, Len(docs) - 1), field, dir),
                      field, dir)

\* .sort(sortParameters): a one-field ordering; documents without the field
\* keep their place at the front.
Sorted(docs, sort) ==
    IF DOMAIN sort = {} THEN docs
    ELSE LET field == CHOOSE k \in DOMAIN sort : TRUE
             with == SelectSeq(docs, LAMBDA d : Has(d, field))
             without == SelectSeq(docs, LAMBDA d : ~Has(d, field))
         IN  without \o SortDocs(with, field, sort[field].n)

\* .skip(start)
Skip(docs, start) == SubSeq(docs, start + 1, Len(docs))

\* .limit(length), for a positive length
Limit(docs, length) == SubSeq(docs, 1, IF length < Len(docs) THEN length ELSE Len(docs))

\* .select(selectParameters)
Project(doc, select) == [k \in (DOMAIN doc) \cap (DOMAIN select) |-> doc[k]]

\* The query of lines 226-236 run against the collection.
Fetch(docs, op) ==
    LET page == Limit(Skip(Sorted(SelectSeq_(docs, op.filter), op.sort), op.skip), op.limit)
    IN  [i \in 1..Len(page) |-> Project(page[i], op.select)]

CountOp(filter) ==
    [op |-> "count", filter |-> filter, select |-> EmptyObj, sort |-> EmptyObj,
     skip |-> 0, limit |-> 0, populate |-> Undefined]

FindOp(filter, select, sort, skip, limit, populate) ==
    [op |-> "find", filter |-> filter, select |-> select, sort |-> sort,
     skip |-> skip, limit |-> limit, populate |-> populate]

----------------------------------------------------------------------------
(* The descriptors and collections the model is run on *)

Column(data, searchable, orderable) ==
    [data |-> data, searchable |-> searchable, orderable |-> orderable]

ColumnChoices ==
    { Column("name", "true", "true"),
      Column("status", "true", "false"),
      Column("status", "false", "true"),
      Column(Undefined, "false", "true"),
      Column("name", "yes", "true") }

ColumnLists == UNION { [1..n -> ColumnChoices] : n \in 0..MaxCols }

\* The columns of the requests run against the store: one that can be
\* searched and sorted by, one that can only be searched, one that can only
\* be sorted by, and one with no data whose searchable flag does not parse.
RunColumnChoices ==
    { Column("name", "true", "true"),
      Column("status", "true", "false"),
      Column("status", "false", "true"),
      Column(Undefined, "yes", "true") }

RunColumns ==
    { [kind |-> "undefined", items |-> <<>>], [kind |-> "object", items |-> <<>>] }
    \cup { [kind |-> "array", items |-> l] :
             l \in UNION { [1..n -> RunColumnChoices] : n \in 0..MaxCols } }

Columns ==
    { [kind |-> "undefined", items |-> <<>>], [kind |-> "object", items |-> <<>>] }
    \cup { [kind |-> "array", items |-> l] : l \in ColumnLists }

Directive(column, dir) == [column |-> column, dir |-> dir]

Orders ==
    { [kind |-> "undefined", items |-> <<>>], [kind |-> "array", items |-> <<>>] }
    \cup { [kind |-> "array", items |-> <<Directive(c, d)>>] :
             c \in {"0", "1", "2", "-1", "0.5", "", "abc"}, d \in {"asc", "desc"} }

RunOrders ==
    { [kind |-> "undefined", items |-> <<>>], [kind |-> "array", items |-> <<>>] }
    \cup { [kind |-> "array", items |-> <<Directive(c, "asc")>>] : c \in {"0", "1", "-1", "abc"} }
    \cup { [kind |-> "array", items |-> <<Directive("0", "desc")>>] }

Search(hasValue, value, smart) ==
    [kind |-> "object", hasValue |-> hasValue, value |-> value, smart |-> smart]

NoSearch == [kind |-> "undefined", hasValue |-> FALSE, value |-> <<>>, smart |-> FALSE]

Searches ==
    { NoSearch, Search(FALSE, <<>>, FALSE), Search(TRUE, <<>>, FALSE),
      Search(TRUE, <<"j">>, FALSE), Search(TRUE, <<"j">>, TRUE),
      Search(TRUE, <<"J", ".">>, FALSE) }

RunSearches ==
    { NoSearch, Search(TRUE, <<>>, FALSE), Search(TRUE, <<"j">>, FALSE),
      Search(TRUE, <<"J", ".">>, TRUE) }

NoFind == [defined |-> FALSE, obj |-> EmptyObj]

Find(obj) == [defined |-> TRUE, obj |-> obj]

StatusA == One("status", Eq(<<"a">>))

NameJo == One("name", Eq(<<"J", "o">>))

CallerOr == List(<< NameJo, One("status", Eq(<<"b">>)) >>)

CallerAnd == List(<< StatusA >>)

Finds ==
    { NoFind, Find(EmptyObj), Find(StatusA), Find(NameJo), Find(One("$or", CallerOr)),
      Find(Put(One("$or", CallerOr), "$and", CallerAnd)),
      Find(Put(StatusA, "$or", CallerOr)) }

RunFinds == { NoFind, Find(StatusA), Find(One("$or", CallerOr)) }

\* draw, start, length as they arrive
Paginations ==
    { <<"1", "0", "2">>, <<"1", "1", "1">>, <<"x", "0", "1">>, <<"1", "abc", "1">>, <<"1", "0", Undefined>> }

Descriptor(pg, columns, order, search, find, populate) ==
    [draw |-> pg[1], start |-> pg[2], length |-> pg[3], columns |-> columns,
     order |-> order, search |-> search, find |-> find, populate |-> populate]

Doc(name, status) == [name |-> name, status |-> status]

\* The documents other clients insert
DocChoices == { Doc(<<"J", "o">>, <<"a">>), Doc(<<"a", "l">>, <<"b">>) }

AllDocs == << Doc(<<"J", "o">>, <<"a">>), Doc(<<"a", "l">>, <<"b">>), Doc(<<"j", ".">>, <<"a">>) >>

\* The collection at the start: empty, or holding MaxDocs documents
Stores == { SubSeq(AllDocs, 1, n) : n \in {0, MaxDocs} }

NoEnvelope == [draw |-> NaN, recordsTotal |-> -1, recordsFiltered |-> -1, data |-> <<>>]

----------------------------------------------------------------------------
(* Initial states *)

InitRun ==
    /\ pc = "idle"
    /\ outcome = "none"
    /\ message = ""
    /\ findParameters = NoCall
    /\ sortParameters = NoCall
    /\ selectParameters = NoCall
    /\ recordsTotal = -1
    /\ recordsFiltered = -1
    /\ envelope = NoEnvelope
    /\ ops = <<>>
    /\ settled = 0
    /\ writes = 0
    /\ writeAt = {}

\* One request, run(Model)(params), on a descriptor the caller just built.
Init ==
    /\ params \in { Descriptor(pg, c, o, s, f, pop) :
                      pg \in Paginations, c \in RunColumns, o \in RunOrders,
                      s \in RunSearches, f \in RunFinds, pop \in {Undefined} }
    /\ orig = params
    /\ ret = Called("none", NoCall)
    /\ calls = 0
    /\ store \in Stores
    /\ InitRun

\* Direct calls of the exported compilers on one descriptor object.
InitCompile ==
    /\ params \in { Descriptor(<<"1", "0", "2">>, c, o, s, f, Undefined) :
                      c \in Columns, o \in Orders, s \in Searches, f \in Finds }
    /\ orig = params
    /\ ret = Called("none", NoCall)
    /\ calls = 0
    /\ store = <<>>
    /\ InitRun

----------------------------------------------------------------------------
(* Direct calls of the compilers (exported at lines 266-268) *)

CallBuildFindParameters ==
    /\ calls < MaxCalls
    /\ LET r == buildFindParameters(params)
       IN  /\ ret' = Called("find", r.ret)
           /\ params' = [params EXCEPT !.find = r.find]
    /\ calls' = calls + 1
    /\ UNCHANGED << orig, runVars >>

CallBuildSortParameters ==
    /\ calls < MaxCalls
    /\ ret' = Called("sort", buildSortParameters(params))
    /\ calls' = calls + 1
    /\ UNCHANGED << params, orig, runVars >>

CallBuildSelectParameters ==
    /\ calls < MaxCalls
    /\ ret' = Called("select", buildSelectParameters(params))
    /\ calls' = calls + 1
    /\ UNCHANGED << params, orig, runVars >>

NextCompile ==
    \/ CallBuildFindParameters
    \/ CallBuildSortParameters
    \/ CallBuildSelectParameters

SpecCompile == InitCompile /\ [][NextCompile]_vars

----------------------------------------------------------------------------
(* run, lines 188-250 *)

\* Validate as it would be if line 210 did not test sortParameters.
ValidateIgnoringSort(draw, start, length, f, so, se) ==
    IF isNaNorUndefined(<<draw, start, length>>) THEN "pagination"
    ELSE IF f.kind = "null" \/ se.kind = "null" THEN "query"
    ELSE "ok"

\* lines 201-214: which rejection, if any, the promise's executor makes.
Validate(draw, start, length, f, so, se) ==
    IF isNaNorUndefined(<<draw, start, length>>) THEN "pagination"
    ELSE IF f.kind = "null" \/ so.kind = "null" \/ se.kind = "null" THEN "query"
    ELSE "ok"

\* line 217: params.find || {}, read after line 193 has run.
BaseFilter(p) == IF p.find.defined THEN p.find.obj ELSE EmptyObj

\* FilteredCountOp as it would be if line 221 passed no filter.
FilteredCountOpUnfiltered(f) == CountOp(EmptyObj)

\* line 221
FilteredCountOp(f) == CountOp(f.val)

\* lines 226-234
FetchOp(p, f, so, se) ==
    FindOp(f.val, se.val, so.val, Number(p.start).n, Number(p.length).n, p.populate)

Settle(how, msg) ==
    /\ pc' = "done"
    /\ outcome' = how
    /\ message' = msg
    /\ settled' = settled + 1

\* The synchronous part of a call: lines 190-195, then the executor up to
\* the first store call (line 217).  An exception of a compiler leaves run
\* before the promise exists.
RunStart ==
    /\ pc = "idle"
    /\ calls' = calls + 1
    /\ LET draw == Number(params.draw)
           start == Number(params.start)
           length == Number(params.length)
           r == buildFindParameters(params)
           p1 == [params EXCEPT !.find = r.find]
           so == buildSortParameters(p1)
           se == buildSelectParameters(p1)
       IN  IF r.ret.kind = "throw" \/ so.kind = "throw"
           THEN /\ params' = p1
                /\ pc' = "done"
                /\ outcome' = "threw"
                /\ message' = IF r.ret.kind = "throw" THEN r.ret.err ELSE so.err
                /\ UNCHANGED << findParameters, sortParameters, selectParameters,
                                ops, settled >>
           ELSE /\ params' = p1
                /\ findParameters' = r.ret
                /\ sortParameters' = so
                /\ selectParameters' = se
                /\ LET v == Validate(draw, start, length, r.ret, so, se)
                   IN  IF v = "ok"
                       THEN /\ ops' = << CountOp(BaseFilter(p1)) >>
                            /\ pc' = "count1"
                            /\ UNCHANGED << outcome, message, settled >>
                       ELSE /\ Settle("rejected", v)
                            /\ UNCHANGED ops
    /\ UNCHANGED << orig, ret, store, recordsTotal, recordsFiltered, envelope,
                    writes, writeAt >>

\* Count1Ok as it would be if the fetch were started together with the
\* second count instead of in the next then.
Count1OkStartingFetchToo ==
    /\ pc = "count1"
    /\ recordsTotal' = countDocuments(store, ops[1].filter)
    /\ ops' = ops \o << FilteredCountOp(findParameters),
                        FetchOp(params, findParameters, sortParameters, selectParameters) >>
    /\ pc' = "count2"
    /\ UNCHANGED << params, orig, ret, calls, store, outcome, message, findParameters,
                    sortParameters, selectParameters, recordsFiltered, envelope,
                    settled, writes, writeAt >>

\* lines 218-222: the first count answers.
Count1Ok ==
    /\ pc = "count1"
    /\ recordsTotal' = countDocuments(store, ops[1].filter)
    /\ ops' = Append(ops, FilteredCountOp(findParameters))
    /\ pc' = "count2"
    /\ UNCHANGED << params, orig, ret, calls, store, outcome, message, findParameters,
                    sortParameters, selectParameters, recordsFiltered, envelope,
                    settled, writes, writeAt >>

\* lines 223-237: the second count answers.
Count2Ok ==
    /\ pc = "count2"
    /\ recordsFiltered' = countDocuments(store, ops[2].filter)
    /\ ops' = Append(ops, FetchOp(params, findParameters, sortParameters, selectParameters))
    /\ pc' = "fetch"
    /\ UNCHANGED << params, orig, ret, calls, store, outcome, message, findParameters,
                    sortParameters, selectParameters, recordsTotal, envelope,
                    settled, writes, writeAt >>

\* lines 238-245: the fetch answers.
FetchOk ==
    /\ pc = "fetch"
    /\ envelope' = [draw |-> Number(params.draw), recordsTotal |-> recordsTotal,
                    recordsFiltered |-> recordsFiltered, data |-> Fetch(store, ops[3])]
    /\ Settle("fulfilled", "")
    /\ UNCHANGED << params, orig, ret, calls, store, findParameters, sortParameters,
                    selectParameters, recordsTotal, recordsFiltered, ops, writes, writeAt >>

\* lines 246-248: the pending store operation fails.
StoreFails ==
    /\ pc \in {"count1", "count2", "fetch"}
    /\ Settle("rejectedStore", "error")
    /\ UNCHANGED << params, orig, ret, calls, store, findParameters, sortParameters,
                    selectParameters, recordsTotal, recordsFiltered, envelope, ops,
                    writes, writeAt >>

\* Another client of the store inserts or deletes a document while the
\* request is in flight.
Write ==
    /\ pc \in {"count1", "count2", "fetch"}
    /\ writes < MaxWrites
    /\ \/ \E d \in DocChoices : store' = Append(store, d)
       \/ \E i \in 1..Len(store) :
              store' = SubSeq(store, 1, i - 1) \o SubSeq(store, i + 1, Len(store))
    /\ writes' = writes + 1
    /\ writeAt' = writeAt \cup {pc}
    /\ UNCHANGED << params, orig, ret, calls, pc, outcome, message, findParameters,
                    sortParameters, selectParameters, recordsTotal, recordsFiltered,
                    envelope, ops, settled >>

Next ==
    \/ RunStart
    \/ Count1Ok
    \/ Count2Ok
    \/ FetchOk
    \/ StoreFails
    \/ Write

Spec == Init /\ [][Next]_vars

----------------------------------------------------------------------------
(* The claims *)

NumericsValid(p) == ~isNaNorUndefined(<< Number(p.draw), Number(p.start), Number(p.length) >>)

SearchTextGiven(p) ==
    p.columns.kind # "undefined" /\ p.search.kind = "object" /\ p.search.hasValue
    /\ p.search.value # <<>>

SearchableCount(p) ==
    Cardinality({ i \in 1..Len(p.columns.items) : p.columns.items[i].searchable = "true" })

AllParse(p) ==
    p.columns.kind = "array"
    /\ \A i \in 1..Len(p.columns.items) : p.columns.items[i].searchable \in {"true", "false"}

\* The request was made with valid draw/start/length, the filter and the
\* projection compiled to objects, and the sort compiled to null.
AbsentSortCase ==
    /\ pc # "idle"
    /\ NumericsValid(orig)
    /\ buildFindParameters(orig).ret.kind = "value"
    /\ buildSelectParameters(orig).kind = "value"
    /\ buildSortParameters(orig).kind = "null"

C2_TotalCountsBaseFilterOnly ==
    Len(ops) >= 1 => ops[1].filter = (IF orig.find.defined THEN orig.find.obj ELSE EmptyObj)

\* The first direct call was buildFindParameters, on a descriptor whose find
\* carries $or and whose search text is not empty, and it returned a filter.
CallerOrCase ==
    /\ calls = 1 /\ ret.fn = "find" /\ ret.kind = "value"
    /\ SearchTextGiven(orig)
    /\ orig.find.defined /\ Has(orig.find.obj, "$or")

SearchOrOf(p) ==
    OrConditions(SelectData(p.columns.items), SearchRegex(p, escapeRegex(p.search.value)))

\* C3, as stated: for any number of searchable columns the returned filter
\* holds $and of the search $or and the caller's $or.
C3_CallerOrConjoined ==
    CallerOrCase =>
        /\ Has(ret.val, "$and")
        /\ ret.val["$and"].items
             = << One("$or", List(SearchOrOf(orig))), One("$or", orig.find.obj["$or"]) >>

\* C3, amended: the caller's $or is never dropped.  With a number of
\* searchable columns other than one, the filter holds $and of the search
\* $or and the caller's $or, and no $or of its own; with exactly one, the
\* caller's $or stays where it was and the column's matcher is set beside it.
C3_CallerOrKept ==
    CallerOrCase =>
        IF SearchableCount(orig) = 1
        THEN /\ Has(ret.val, "$or") /\ ret.val["$or"] = orig.find.obj["$or"]
             /\ LET field == SelectData(orig.columns.items)[1]
                IN  ret.val = Put(orig.find.obj, field,
                                  SearchRegex(orig, escapeRegex(orig.search.value)))
        ELSE /\ ~Has(ret.val, "$or")
             /\ Has(ret.val, "$and")
             /\ ret.val["$and"].items
                  = << One("$or", List(SearchOrOf(orig))), One("$or", orig.find.obj["$or"]) >>

C3_Witness ==
    CallerOrCase /\ SearchableCount(orig) = 2 /\ Has(ret.val, "$and")

\* C4: with search text and no searchable column the returned filter is the
\* base filter, with nothing added.
C4_NoSearchableNothingAdded ==
    (calls = 1 /\ ret.fn = "find" /\ ret.kind = "value" /\ SearchTextGiven(orig)
     /\ AllParse(orig) /\ SearchableCount(orig) = 0)
        => ret.val = (IF orig.find.defined THEN orig.find.obj ELSE EmptyObj)

IntegerTokens == {"0", "1", "2", "3", "-1"}

\* C5: on a non-empty order, buildSortParameters never throws; it returns
\* null unless order[0].column is an integer indexing an orderable column
\* with data, and then {data: 1} for dir "asc" and {data: -1} otherwise.
C5_SortTotal ==
    (calls = 1 /\ ret.fn = "sort" /\ orig.order.kind = "array" /\ Len(orig.order.items) >= 1)
        => LET tok == orig.order.items[1].column
               idx == Number(tok).n
               ok == /\ tok \in IntegerTokens
                     /\ orig.columns.kind = "array"
                     /\ idx >= 0 /\ idx < Len(orig.columns.items)
                     /\ orig.columns.items[idx + 1].orderable # "false"
                     /\ orig.columns.items[idx + 1].data # Undefined
           IN  IF ok
               THEN /\ ret.kind = "value"
                    /\ ret.val = One(orig.columns.items[idx + 1].data,
                                     Num(IF orig.order.items[1].dir = "asc" THEN 1 ELSE -1))
               ELSE ret.kind = "null"

\* C6: when draw, start or length is NaN, or the filter or the projection
\* compiles to null, run rejects with a malformed-parameters error, the
\* pagination one first, and no store operation is issued.
C6_MalformedRejectedBeforeStore ==
    (pc # "idle" /\ (\/ ~NumericsValid(orig)
                     \/ buildFindParameters(orig).ret.kind = "null"
                     \/ buildSelectParameters(orig).kind = "null"))
        => /\ outcome = "rejected"
           /\ message = (IF NumericsValid(orig) THEN "query" ELSE "pagination")
           /\ ops = <<>>

\* C7: the store operations are count, count, fetch in that order, each
\* issued once and only when the one before has answered; a failure ends
\* the request with {error}, nothing more is issued, and the request
\* settles exactly once.
C7_StoreOpsSequenced ==
    /\ Len(ops) <= 3
    /\ \A i \in 1..Len(ops) : ops[i].op = << "count", "count", "find" >>[i]
    /\ Len(ops) >= 1 => ops[1].filter = BaseFilter(params)
    /\ Len(ops) >= 2 => ops[2].filter = findParameters.val
    /\ Len(ops) >= 3 => ops[3].filter = findParameters.val
    /\ Len(ops) = (IF recordsTotal = -1 THEN (IF pc = "idle" \/ outcome \in {"threw", "rejected"} THEN 0 ELSE 1)
                   ELSE IF recordsFiltered = -1 THEN 2 ELSE 3)
    /\ pc = "count1" => recordsTotal = -1
    /\ pc = "count2" => recordsTotal >= 0 /\ recordsFiltered = -1
    /\ pc = "fetch" => recordsFiltered >= 0
    /\ settled = (IF pc = "done" /\ outcome # "threw" THEN 1 ELSE 0)
    /\ outcome = "fulfilled" => Len(ops) = 3 /\ envelope.recordsTotal = recordsTotal
                                /\ envelope.recordsFiltered = recordsFiltered
    /\ outcome = "rejectedStore" => message = "error" /\ envelope = NoEnvelope /\ Len(ops) >= 1
    /\ outcome # "fulfilled" => envelope = NoEnvelope

C7_Witness ==
    outcome = "rejectedStore" /\ Len(ops) = 2 /\ recordsTotal >= 0 /\ recordsFiltered = -1

\* C8: a call leaves the descriptor, find included, as the caller built it.
C8_DescriptorUnchanged == params = orig

C10_CallerConstraintsKept ==
    (calls = 1 /\ ret.fn = "find" /\ ret.kind = "value" /\ orig.find.defined)
        => \A k \in DOMAIN orig.find.obj :
               \/ Has(ret.val, k) /\ ret.val[k] = orig.find.obj[k]
               \/ /\ Has(ret.val, "$and")
                  /\ \E i \in 1..Len(ret.val["$and"].items) :
                         ret.val["$and"].items[i] = One(k, orig.find.obj[k])

====
